---- MODULE Spec2Model ----
(***************************************************************************)
(* Model of my_agent/agent.py: the confirmation-gated input collector      *)
(* resume_gap_asker_tool, the agents whose output_key writes the session   *)
(* state keys it reads and writes, and save_generated_resume_latex.        *)
(*                                                                         *)
(* Python text is a sequence of one-character strings, so that formatting, *)
(* upper-casing and encoding are computed and not assumed.  Every Python   *)
(* value is a record [type, val].                                          *)
(***************************************************************************)
EXTENDS Integers, Sequences, FiniteSets, TLC

VARIABLES
    state,              \* tool_context.state: session key -> value
    tool_confirmation,  \* tool_context.tool_confirmation of the latest invocation
    requested,          \* requests registered through request_confirmation, oldest first
    result,             \* outcome of the latest resume_gap_asker_tool invocation
    previous,           \* status of the invocation before the latest one
    artifacts,          \* parts stored under the artifact filename, by version
    saved,              \* per save_generated_resume_latex call: what the store did, what came back
    stdout              \* lines written by print, oldest first

vars == <<state, tool_confirmation, requested, result, previous, artifacts, saved, stdout>>

collector_vars == <<state, tool_confirmation, requested, result, previous>>

save_vars == <<artifacts, saved, stdout>>

----------------------------------------------------------------------------
(* Bounds of the model. *)

\* requests one session may register
MaxRequests == 3

\* length of the replies enumerated exhaustively
MaxLen == 4

\* calls of save_generated_resume_latex in one session
MaxSaves == 4

----------------------------------------------------------------------------
(* Text. *)

\* The printable ASCII characters, code points 32..126 in order (the grave
\* accent, which a TLA+ string cannot hold, is written "U+0060").
Printable ==
    <<" ", "!", "\"", "#", "$", "%", "&", "'", "(", ")", "*", "+", ",", "-", ".", "/",
      "0", "1", "2", "3", "4", "5", "6", "7", "8", "9", ":", ";", "<", "=", ">", "?",
      "@", "A", "B", "C", "D", "E", "F", "G", "H", "I", "J", "K", "L", "M", "N", "O",
      "P", "Q", "R", "S", "T", "U", "V", "W", "X", "Y", "Z", "[", "\\", "]", "^", "_",
      "U+0060", "a", "b", "c", "d", "e", "f", "g", "h", "i", "j", "k", "l", "m", "n", "o",
      "p", "q", "r", "s", "t", "u", "v", "w", "x", "y", "z", "{", "|", "}", "~">>

ord(c) ==
    IF c = "\n" THEN 10
    ELSE CHOOSE n \in 32..126 : Printable[n - 31] = c

chr(n) ==
    IF n = 10 THEN "\n" ELSE Printable[n - 31]

\* str.upper on one ASCII character: a..z (97..122) go to A..Z, the rest stay.
upper_char(c) ==
    IF ord(c) \in 97..122 THEN chr(ord(c) - 32) ELSE c

\* Mutant of upper: the reply is compared as typed.
upper_omitted(s) ==
    s

\* str.upper
upper(s) ==
    [i \in 1..Len(s) |-> upper_char(s[i])]

\* str.encode('utf-8') on ASCII text: one byte per character.
encode(s) ==
    [i \in 1..Len(s) |-> ord(s[i])]

RECURSIVE str_int(_)
\* str() of a non-negative int: its decimal digits.
str_int(n) ==
    IF n < 10 THEN <<chr(48 + n)>>
    ELSE str_int(n \div 10) \o <<chr(48 + (n % 10))>>

\* needle in haystack
Contains(haystack, needle) ==
    \E i \in 0..(Len(haystack) - Len(needle)) :
        \A j \in 1..Len(needle) : haystack[i + j] = needle[j]

(* The string literals of agent.py. *)

HintPrefix ==
    <<"T", "o", " ", "i", "m", "p", "r", "o", "v", "e", " ", "y", "o", "u", "r", " ",
      "r", "e", "s", "u", "m", "e", ",", " ", "p", "l", "e", "a", "s", "e", " ", "p",
      "r", "o", "v", "i", "d", "e", ":", " ">>

HintSuffix ==
    <<"\n", "\n", "Y", "o", "u", " ", "c", "a", "n", " ", "a", "l", "s", "o", " ", "t",
      "y", "p", "e", " ", "'", "S", "K", "I", "P", "'", " ", "t", "o", " ", "p", "r",
      "o", "c", "e", "e", "d", " ", "w", "i", "t", "h", " ", "c", "u", "r", "r", "e",
      "n", "t", " ", "r", "e", "s", "u", "m", "e", ".">>

Placeholder ==
    <<"y", "o", "u", "r", " ", "i", "n", "p", "u", "t", " ", "h", "e", "r", "e">>

WaitingMessage ==
    <<"W", "a", "i", "t", "i", "n", "g", " ", "f", "o", "r", " ", "u", "s", "e", "r",
      " ", "r", "e", "s", "p", "o", "n", "s", "e", ".", ".", ".">>

SKIP ==
    <<"S", "K", "I", "P">>

SkipText ==
    <<"U", "s", "e", "r", " ", "c", "h", "o", "s", "e", " ", "t", "o", " ", "p", "r",
      "o", "c", "e", "e", "d", " ", "w", "i", "t", "h", "o", "u", "t", " ", "a", "d",
      "d", "i", "t", "i", "o", "n", "a", "l", " ", "i", "n", "f", "o", "r", "m", "a",
      "t", "i", "o", "n">>

ProceedingMessage ==
    <<"P", "r", "o", "c", "e", "e", "d", "i", "n", "g", " ", "w", "i", "t", "h", " ",
      "c", "u", "r", "r", "e", "n", "t", " ", "r", "e", "s", "u", "m", "e", ".", ".",
      ".">>

ErrorPrefix ==
    <<"A", "n", " ", "e", "r", "r", "o", "r", " ", "o", "c", "c", "u", "r", "r", "e",
      "d", ":", " ">>

Filename ==
    <<"g", "e", "n", "e", "r", "a", "t", "e", "d", "_", "r", "e", "s", "u", "m", "e",
      "_", "l", "a", "t", "e", "x", ".", "t", "e", "x">>

SuccessPrefix ==
    <<"F", "i", "l", "e", " ", "'">>

SuccessMid ==
    <<"'", " ", "(", "v", "e", "r", "s", "i", "o", "n", " ">>

SuccessSuffix ==
    <<")", " ", "h", "a", "s", " ", "b", "e", "e", "n", " ", "c", "r", "e", "a", "t",
      "e", "d", " ", "a", "n", "d", " ", "i", "s", " ", "n", "o", "w", " ", "a", "v",
      "a", "i", "l", "a", "b", "l", "e", " ", "f", "o", "r", " ", "d", "o", "w", "n",
      "l", "o", "a", "d", ".">>

ValueErrorPrefix ==
    <<"E", "r", "r", "o", "r", " ", "s", "a", "v", "i", "n", "g", " ", "L", "a", "T",
      "e", "X", " ", "a", "r", "t", "i", "f", "a", "c", "t", ":", " ">>

ValueErrorSuffix ==
    <<".", " ", "I", "s", " ", "A", "r", "t", "i", "f", "a", "c", "t", "S", "e", "r",
      "v", "i", "c", "e", " ", "c", "o", "n", "f", "i", "g", "u", "r", "e", "d", " ",
      "i", "n", " ", "R", "u", "n", "n", "e", "r", "?">>

UnexpectedPrefix ==
    <<"A", "n", " ", "u", "n", "e", "x", "p", "e", "c", "t", "e", "d", " ", "e", "r",
      "r", "o", "r", " ", "o", "c", "c", "u", "r", "r", "e", "d", " ", "d", "u", "r",
      "i", "n", "g", " ", "L", "a", "T", "e", "X", " ", "a", "r", "t", "i", "f", "a",
      "c", "t", " ", "s", "a", "v", "e", ":", " ">>

\* str(e) of the exceptions the collector can raise (CPython's wording).
KeyErrorText ==
    <<"'", "u", "s", "e", "r", "_", "r", "e", "s", "p", "o", "n", "s", "e", "'">>

NotSubscriptableText ==
    <<"o", "b", "j", "e", "c", "t", " ", "i", "s", " ", "n", "o", "t", " ",
      "s", "u", "b", "s", "c", "r", "i", "p", "t", "a", "b", "l", "e">>

NoUpperText ==
    <<"o", "b", "j", "e", "c", "t", " ", "h", "a", "s", " ", "n", "o", " ",
      "a", "t", "t", "r", "i", "b", "u", "t", "e", " ", "'", "u", "p", "p", "e", "r", "'">>

----------------------------------------------------------------------------
(* Python values and the outcome of evaluating an expression. *)

None == [type |-> "NoneType", val |-> <<>>]

Str(s) == [type |-> "str", val |-> s]

\* an int, held as its decimal digits
PyInt(digits) == [type |-> "int", val |-> digits]

\* a dict: val maps each key to a value
Dict(f) == [type |-> "dict", val |-> f]

EmptyDict == Dict(<<>>)

\* google.adk ToolConfirmation: val is its payload attribute
ToolConfirmation(payload) == [type |-> "ToolConfirmation", val |-> payload]

Return(v) == [kind |-> "return", value |-> v]

Raise(cls, text) == [kind |-> "raise", value |-> [exc |-> cls, text |-> text]]

\* no call has been made yet
NoResult == [kind |-> "none", value |-> None]

\* Mutant of Exception: the handler catches lookup failures only.
ExceptionLookupOnly == {"KeyError"}

\* The classes that `except Exception` catches, among those raised here.
Exception == {"Exception", "KeyError", "TypeError", "AttributeError", "ValueError", "RuntimeError"}

\* truth value of an object: None is false, a ToolConfirmation instance is true
Truthy(v) == v.type # "NoneType"

\* type(v).__name__ as text
TypeName(v) ==
    CASE v.type = "NoneType" -> <<"N", "o", "n", "e", "T", "y", "p", "e">>
      [] v.type = "int" -> <<"i", "n", "t">>
      [] v.type = "str" -> <<"s", "t", "r">>
      [] v.type = "dict" -> <<"d", "i", "c", "t">>
      [] OTHER -> <<"o", "b", "j", "e", "c", "t">>

\* Mutant of getitem: a missing key reads as the empty string, as with
\* dict.get(key, "").
getitem_defaulting(obj, key) ==
    IF obj.type = "dict"
    THEN IF key \in DOMAIN obj.val
         THEN Return(obj.val[key])
         ELSE Return(Str(<< >>))
    ELSE Raise("TypeError", <<"'">> \o TypeName(obj) \o <<"'", " ">> \o NotSubscriptableText)

\* obj[key]
getitem(obj, key) ==
    IF obj.type = "dict"
    THEN IF key \in DOMAIN obj.val
         THEN Return(obj.val[key])
         ELSE Raise("KeyError", KeyErrorText)
    ELSE Raise("TypeError", <<"'">> \o TypeName(obj) \o <<"'", " ">> \o NotSubscriptableText)

\* obj.upper()
call_upper(obj) ==
    IF obj.type = "str"
    THEN Return(Str(upper(obj.val)))
    ELSE Raise("AttributeError", <<"'">> \o TypeName(obj) \o <<"'", " ">> \o NoUpperText)

\* state.get(key, default)
get(st, key, default) ==
    IF key \in DOMAIN st THEN st[key] ELSE default

\* state[key] = value
setitem(st, key, value) ==
    [k \in DOMAIN st \cup {key} |-> IF k = key THEN value ELSE st[k]]

\* a value interpolated into an f-string
format(v) ==
    IF v.type = "NoneType" THEN TypeName(v) ELSE v.val

----------------------------------------------------------------------------
(* resume_gap_asker_tool *)

\* Mutant of Hint: the hint is built from 'user_input' instead of the critique.
HintOfUserInput(critique) ==
    HintPrefix \o format(get(state, "user_input", Str(<< >>))) \o HintSuffix

\* the hint of the confirmation request
Hint(critique) ==
    HintPrefix \o format(critique) \o HintSuffix

\* tool_context.request_confirmation(hint=..., payload=...)
request_confirmation(reqs, hint, payload) ==
    Append(reqs, [hint |-> hint, payload |-> payload])

AwaitingResult ==
    [status |-> "awaiting_user_input", message |-> WaitingMessage]

\* Mutant of SkippedResult: the result echoes the reply text.
SkippedResultEchoing ==
    [status |-> "skipped", user_input |-> SKIP, message |-> ProceedingMessage]

SkippedResult ==
    [status |-> "skipped", user_input |-> SkipText, message |-> ProceedingMessage]

\* Mutant of InfoCollectedResult: the result carries the upper-cased reply.
InfoCollectedResultUpper(user_response) ==
    [status |-> "info_collected", user_input |-> upper(user_response)]

InfoCollectedResult(user_response) ==
    [status |-> "info_collected", user_input |-> user_response]

ErrorResult(e) ==
    [status |-> "error", message |-> ErrorPrefix \o e.text]

\* The body of the try block: the session state it leaves and how it ends.
TryBody(st, confirmation) ==
    LET read == getitem(confirmation.val, "user_response")
    IN  IF read.kind = "raise"
        THEN [state |-> st, outcome |-> read]
        ELSE LET user_response == read.value
                 written == setitem(st, "user_input", user_response)
                 upped == call_upper(user_response)
             IN  IF upped.kind = "raise"
                 THEN [state |-> written, outcome |-> upped]
                 ELSE IF upped.value = Str(SKIP)
                      THEN [state |-> written, outcome |-> Return(SkippedResult)]
                      ELSE [state |-> written,
                            outcome |-> Return(InfoCollectedResult(user_response.val))]

\* try ... except Exception as e: return the error result
Except(outcome) ==
    IF outcome.kind = "raise" /\ outcome.value.exc \in Exception
    THEN Return(ErrorResult(outcome.value))
    ELSE outcome

\* status of an outcome, for the record of the previous invocation
StatusOf(outcome) ==
    CASE outcome.kind = "return" -> outcome.value.status
      [] outcome.kind = "raise" -> "fault"
      [] OTHER -> "none"

\* Mutant of Ask: the branch also initialises 'user_input' when it is absent.
AskInitialising(st, reqs) ==
    [state |-> IF "user_input" \in DOMAIN st
               THEN st
               ELSE setitem(st, "user_input", Str(<< >>)),
     requested |-> request_confirmation(reqs, Hint(get(st, "critique", Str(<< >>))),
                       Dict([k \in {"user_response"} |-> Str(Placeholder)])),
     outcome |-> Return(AwaitingResult)]

\* The branch taken when no confirmation is attached: register the request
\* and report that the tool is waiting.
Ask(st, reqs) ==
    LET critique == get(st, "critique", Str(<< >>))
        hint == Hint(critique)
    IN  [state |-> st,
         requested |-> request_confirmation(reqs, hint,
                           Dict([k \in {"user_response"} |-> Str(Placeholder)])),
         outcome |-> Return(AwaitingResult)]

\* The branch taken when a confirmation is attached.
Answer(st, reqs, confirmation) ==
    LET body == TryBody(st, confirmation)
    IN  [state |-> body.state,
         requested |-> reqs,
         outcome |-> Except(body.outcome)]

\* One invocation with tool_context.tool_confirmation = confirmation.
resume_gap_asker_tool(confirmation) ==
    \E call \in { IF ~Truthy(confirmation)
                   THEN Ask(state, requested)
                   ELSE Answer(state, requested, confirmation) } :
        /\ Len(call.requested) <= MaxRequests
        /\ state' = call.state
        /\ requested' = call.requested
        /\ result' = call.outcome
        /\ tool_confirmation' = confirmation
        /\ previous' = StatusOf(result)
        /\ UNCHANGED save_vars

----------------------------------------------------------------------------
(* save_generated_resume_latex *)

MimeType ==
    <<"t", "e", "x", "t", "/", "p", "l", "a", "i", "n">>

StatusSuccess ==
    <<"s", "u", "c", "c", "e", "s", "s">>

\* LaTeX texts the root agent may hand over
LatexContents ==
    { <<"\\", "b", "e", "g", "i", "n", "{", "d", "o", "c", "u", "m", "e", "n", "t", "}">>,
      <<"%", " ", "r", "e", "s", "u", "m", "e">> }

\* what tool_context.save_artifact can do: store the part and return its
\* version, or raise
StoreConditions == {"stored", "ValueError", "RuntimeError"}

\* str(e) of the exception save_artifact raises
StoreErrorText(condition) ==
    IF condition = "ValueError"
    THEN <<"A", "r", "t", "i", "f", "a", "c", "t", " ", "s", "e", "r", "v", "i", "c", "e",
           " ", "i", "s", " ", "n", "o", "t", " ", "i", "n", "i", "t", "i", "a", "l", "i",
           "z", "e", "d", ".">>
    ELSE <<"c", "o", "n", "n", "e", "c", "t", "i", "o", "n", " ", "r", "e", "s", "e", "t">>

SuccessResult(version) ==
    [status |-> StatusSuccess,
     message |-> SuccessPrefix \o Filename \o SuccessMid \o str_int(version) \o SuccessSuffix]

\* What the call hands back to its caller: the success dict, or None when an
\* except branch ran and the function fell off its end.
SaveReturn(condition, version) ==
    IF condition = "stored"
    THEN Return(SuccessResult(version))
    ELSE IF condition \in Exception
         THEN Return(None)
         ELSE Raise(condition, StoreErrorText(condition))

\* The line an except branch writes.
SaveLine(condition) ==
    IF condition = "ValueError"
    THEN ValueErrorPrefix \o StoreErrorText(condition) \o ValueErrorSuffix
    ELSE UnexpectedPrefix \o StoreErrorText(condition)

\* One call, with save_artifact behaving as `condition` says.
save_generated_resume_latex(latex_content, condition) ==
    LET latex_bytes == encode(latex_content)
        artifact_part == [inline_data |-> [mime_type |-> MimeType, data |-> latex_bytes]]
        version == Len(artifacts)
    IN  /\ Len(saved) < MaxSaves
        /\ artifacts' = IF condition = "stored"
                        THEN Append(artifacts, artifact_part)
                        ELSE artifacts
        /\ stdout' = IF condition # "stored" /\ condition \in Exception
                     THEN Append(stdout, SaveLine(condition))
                     ELSE stdout
        /\ saved' = Append(saved, [condition |-> condition,
                                   outcome |-> SaveReturn(condition, version)])
        /\ UNCHANGED collector_vars

----------------------------------------------------------------------------
(* The callers of the collector: the values they can hand it. *)

\* critiques the CritiqueAgent may write
Critiques ==
    { <<"A", "P", "P", "R", "O", "V", "E", "D">>,
      <<"A", "d", "d", " ", "m", "e", "t", "r", "i", "c", "s">> }

\* replies a user may type
Replies ==
    { <<"S", "K", "I", "P">>,
      <<"s", "k", "i", "p">>,
      <<"S", "k", "i", "p">>,
      <<"S", "K", "I", "P", "S">>,
      <<" ", "S", "K", "I", "P">>,
      <<"I", " ", "l", "e", "d", " ", "3">>,
      << >> }

WellFormedPayloads ==
    { Dict([k \in {"user_response"} |-> Str(r)]) : r \in Replies }

\* payloads without the field, with a field that is no string, and no dict at all
MalformedPayloads ==
    { EmptyDict,
      Dict([k \in {"answer"} |-> Str(SKIP)]),
      Dict([k \in {"user_response"} |-> PyInt(<<"4", "2">>)]),
      Dict([k \in {"user_response"} |-> None]),
      None,
      Str(SKIP) }

ToolConfirmations ==
    {None} \cup { ToolConfirmation(p) : p \in WellFormedPayloads \cup MalformedPayloads }

\* final responses the ResumeGapAsker model may give
AgentResponses ==
    { SkipText, <<"o", "k">> }

\* every text over the skip letters and two others, up to MaxLen characters
Alphabet == {"S", "s", "K", "k", "I", "i", "P", "p", "x", " "}

Texts ==
    UNION { [1..n -> Alphabet] : n \in 0..MaxLen }

----------------------------------------------------------------------------
(* The agents that write the keys the collector reads and writes. *)

\* CritiqueAgent, output_key="critique"
critique_agent(text) ==
    /\ state' = setitem(state, "critique", Str(text))
    /\ UNCHANGED <<tool_confirmation, requested, result, previous>>
    /\ UNCHANGED save_vars

\* ResumeGapAsker, output_key="user_input": its final response is stored
resume_gap_asker(text) ==
    /\ result.kind = "return"
    /\ state' = setitem(state, "user_input", Str(text))
    /\ UNCHANGED <<tool_confirmation, requested, result, previous>>
    /\ UNCHANGED save_vars

----------------------------------------------------------------------------
(* The session. *)

Init ==
    /\ state = << >>
    /\ tool_confirmation = None
    /\ requested = << >>
    /\ result = NoResult
    /\ previous = "none"
    /\ artifacts = << >>
    /\ saved = << >>
    /\ stdout = << >>

Invoke ==
    \E confirmation \in ToolConfirmations : resume_gap_asker_tool(confirmation)

Critique ==
    \E text \in Critiques : critique_agent(text)

Respond ==
    \E text \in AgentResponses : resume_gap_asker(text)

Next ==
    \/ Invoke
    \/ Critique
    \/ Respond

Spec == Init /\ [][Next]_vars

\* The root agent saving the filled template, one call after another.
Save ==
    \E latex_content \in LatexContents, condition \in StoreConditions :
        save_generated_resume_latex(latex_content, condition)

SaveSpec == Init /\ [][Save]_vars

\* One ask answered by any text over Alphabet.
Reply(r) == ToolConfirmation(Dict([k \in {"user_response"} |-> Str(r)]))

FirstCall ==
    /\ result = NoResult
    /\ resume_gap_asker_tool(None)

SecondCall ==
    /\ StatusOf(result) = "awaiting_user_input"
    /\ \E r \in Texts : resume_gap_asker_tool(Reply(r))

ReplySpec == Init /\ [][FirstCall \/ SecondCall]_vars

----------------------------------------------------------------------------
(* Vocabulary of the properties. *)

\* the status the latest invocation returned ("fault" if it raised)
Status == StatusOf(result)

HasUserInput(st) == "user_input" \in DOMAIN st

\* 'user_input' is in st2 what it was in st1: absent in both, or the same value
SameUserInput(st1, st2) ==
    /\ HasUserInput(st1) <=> HasUserInput(st2)
    /\ HasUserInput(st1) => st1["user_input"] = st2["user_input"]

\* the payload is a dict holding 'user_response'
HasField(confirmation) ==
    /\ Truthy(confirmation)
    /\ confirmation.val.type = "dict"
    /\ "user_response" \in DOMAIN confirmation.val.val

\* the payload holds a string under 'user_response'
WellFormed(confirmation) ==
    /\ HasField(confirmation)
    /\ confirmation.val.val["user_response"].type = "str"

\* the text of a well-formed reply
ReplyText(confirmation) == confirmation.val.val["user_response"].val

\* r spells the letters S-K-I-P, each in either case
SkipSpelling(r) ==
    /\ Len(r) = 4
    /\ r[1] \in {"S", "s"}
    /\ r[2] \in {"K", "k"}
    /\ r[3] \in {"I", "i"}
    /\ r[4] \in {"P", "p"}

Resolved == {"skipped", "info_collected", "error"}

----------------------------------------------------------------------------
(* Properties. *)

\* C1: an invocation without a confirmation returns status
\* "awaiting_user_input" and leaves 'user_input' as it was, absent or present.
C1_FirstCallAwaits ==
    [][ ( tool_confirmation' = None /\ resume_gap_asker_tool(None) ) =>
          /\ result'.kind = "return"
          /\ result'.value.status = "awaiting_user_input"
          /\ SameUserInput(state, state') ]_vars

\* C1 witness: the tool was invoked without a confirmation in a session whose
\* 'user_input' an earlier answer had set, and it is still there.
C1_Witness ==
    /\ tool_confirmation = None
    /\ Status = "awaiting_user_input"
    /\ previous = "info_collected"
    /\ HasUserInput(state)

\* C2: once a request is registered, a reply R that is no spelling of SKIP
\* returns status "info_collected" with user_input = R exactly, and the
\* session's 'user_input' is R afterwards, whatever it was before.
C2_PassThrough ==
    [][ ( /\ WellFormed(tool_confirmation')
          /\ ~SkipSpelling(ReplyText(tool_confirmation'))
          /\ requested # << >>
          /\ resume_gap_asker_tool(tool_confirmation') )
        => LET r == ReplyText(tool_confirmation')
           IN  /\ result' = Return([status |-> "info_collected", user_input |-> r])
               /\ HasUserInput(state')
               /\ state'["user_input"] = Str(r) ]_vars

\* C2 witness: a reply was collected over the value a skipped cycle had left.
C2_Witness ==
    /\ WellFormed(tool_confirmation)
    /\ ReplyText(tool_confirmation) = <<"I", " ", "l", "e", "d", " ", "3">>
    /\ requested # << >>
    /\ Status = "info_collected"
    /\ previous = "skipped"
    /\ state["user_input"] = Str(<<"I", " ", "l", "e", "d", " ", "3">>)

\* C3 as stated: the reply "SKIP" returns status "skipped" and leaves the
\* fixed explanatory string, not the text "SKIP", in the session's 'user_input'.
C3_SkipStoresExplanation ==
    [][ ( tool_confirmation' = Reply(SKIP) /\ resume_gap_asker_tool(Reply(SKIP)) ) =>
          /\ result'.kind = "return"
          /\ result'.value.status = "skipped"
          /\ HasUserInput(state')
          /\ state'["user_input"] = Str(SkipText)
          /\ state'["user_input"] # Str(SKIP) ]_vars

\* C3 amended: the reply "SKIP" returns status "skipped" whose user_input
\* field is the fixed explanatory string, while the session's 'user_input'
\* holds the reply text "SKIP" itself.
C3_SkipReturnsExplanation ==
    [][ ( tool_confirmation' = Reply(SKIP) /\ resume_gap_asker_tool(Reply(SKIP)) ) =>
          /\ result'.kind = "return"
          /\ result'.value.status = "skipped"
          /\ result'.value.user_input = SkipText
          /\ result'.value.user_input # SKIP
          /\ HasUserInput(state')
          /\ state'["user_input"] = Str(SKIP) ]_vars

\* C3 witness: the tool has answered the reply "SKIP".
C3_Witness ==
    /\ tool_confirmation = Reply(SKIP)
    /\ Status = "skipped"
    /\ HasUserInput(state)
    /\ state["user_input"] = Str(SKIP)

\* C4: a string reply returns status "skipped" exactly when it spells
\* S-K-I-P in any mix of upper and lower case.
C4_SkipCaseInsensitive ==
    WellFormed(tool_confirmation) =>
        (Status = "skipped" <=> SkipSpelling(ReplyText(tool_confirmation)))

\* C4 witness: a mixed-case spelling was answered with "skipped".
C4_Witness ==
    /\ tool_confirmation = Reply(<<"s", "K", "i", "P">>)
    /\ Status = "skipped"

\* C5: a confirmation whose payload lacks 'user_response' returns status
\* "error" and leaves 'user_input' as it was.
C5_MissingFieldIsError ==
    [][ ( /\ Truthy(tool_confirmation')
          /\ ~HasField(tool_confirmation')
          /\ resume_gap_asker_tool(tool_confirmation') )
        => /\ result'.kind = "return"
           /\ result'.value.status = "error"
           /\ SameUserInput(state, state') ]_vars

\* C5 witness: a payload without the field was answered with "error" in a
\* session whose 'user_input' an earlier answer had set.
C5_Witness ==
    /\ tool_confirmation = ToolConfirmation(EmptyDict)
    /\ Status = "error"
    /\ previous = "info_collected"
    /\ HasUserInput(state)

\* C6 as stated: a confirmation whose 'user_response' is no string returns
\* status "error" and leaves 'user_input' as it was.
C6_NonStringIsErrorWithoutWrite ==
    [][ ( /\ HasField(tool_confirmation')
          /\ ~WellFormed(tool_confirmation')
          /\ resume_gap_asker_tool(tool_confirmation') )
        => /\ result'.kind = "return"
           /\ result'.value.status = "error"
           /\ SameUserInput(state, state') ]_vars

\* C7 as stated: "skipped" and "info_collected" are returned, and
\* 'user_input' written, only when a request was registered before; a
\* well-formed reply arriving when none ever was returns "error" and leaves
\* the session state alone.
C7_NoAnswerWithoutRequest ==
    [][ ( /\ WellFormed(tool_confirmation')
          /\ resume_gap_asker_tool(tool_confirmation') )
        => /\ result'.kind = "return"
           /\ result'.value.status \in {"skipped", "info_collected"} => requested # << >>
           /\ requested = << >> => ( /\ result'.value.status = "error"
                                    /\ state' = state ) ]_vars

\* C8: whatever the session state and the confirmation, an invocation returns
\* a result whose status is one of the four; no exception leaves the tool.
C8_AlwaysStructuredResult ==
    \/ result = NoResult
    \/ /\ result.kind = "return"
       /\ result.value.status \in
              {"awaiting_user_input", "skipped", "info_collected", "error"}

\* C8 witness: a 'user_response' that is no string was answered with "error".
C8_Witness ==
    /\ HasField(tool_confirmation)
    /\ ~WellFormed(tool_confirmation)
    /\ Status = "error"

\* C9: after a resolved cycle, an invocation without a confirmation returns
\* "awaiting_user_input" and registers exactly one new request, leaving the
\* earlier ones alone; its hint is the fixed text around the latest critique
\* and mentions 'SKIP', its payload is {"user_response": placeholder}, and
\* neither depends on 'user_input' or on the earlier reply.  An invocation
\* with a confirmation never returns "awaiting_user_input" nor registers a
\* request.
C9_FreshCycle ==
    [][ /\ ( /\ Status \in Resolved
             /\ tool_confirmation' = None
             /\ resume_gap_asker_tool(None) ) =>
             LET latest == IF "critique" \in DOMAIN state'
                           THEN state'["critique"].val ELSE << >>
                 new == requested'[Len(requested')]
             IN  /\ result' = Return([status |-> "awaiting_user_input",
                                      message |-> WaitingMessage])
                 /\ Len(requested') = Len(requested) + 1
                 /\ SubSeq(requested', 1, Len(requested)) = requested
                 /\ new.hint = HintPrefix \o latest \o HintSuffix
                 /\ Contains(new.hint, latest)
                 /\ Contains(new.hint, <<"'", "S", "K", "I", "P", "'">>)
                 /\ new.payload = Dict([k \in {"user_response"} |-> Str(Placeholder)])
        /\ ( /\ Truthy(tool_confirmation')
             /\ resume_gap_asker_tool(tool_confirmation') ) =>
               /\ StatusOf(result') # "awaiting_user_input"
               /\ requested' = requested ]_vars

\* C9 witness: a cycle was resolved by a reply, a new critique arrived, and
\* the tool asked again.
C9_Witness ==
    /\ tool_confirmation = None
    /\ Status = "awaiting_user_input"
    /\ previous = "info_collected"
    /\ Len(requested) = 2
    /\ requested[1].hint # requested[2].hint
    /\ HasUserInput(state)

\* C10 as stated: a successful save returns a result carrying the version the
\* store handed back, and what the caller gets back tells success, the
\* configuration error (ValueError) and any other failure apart.
C10_SaveOutcomesDistinct ==
    \A i \in 1..Len(saved) :
        /\ saved[i].condition = "stored" =>
              /\ saved[i].outcome.kind = "return"
              /\ LET version == Cardinality({j \in 1..(i - 1) : saved[j].condition = "stored"})
                 IN  Contains(saved[i].outcome.value.message,
                              <<"(", "v", "e", "r", "s", "i", "o", "n", " ">>
                                  \o str_int(version) \o <<")">>)
        /\ \A j \in 1..Len(saved) :
              saved[i].condition # saved[j].condition =>
                  saved[i].outcome # saved[j].outcome
====
